---- MODULE Spec2Model ----
(***************************************************************************)
(* A model of pixelparity's GPU rendering layer: the DrawContext class     *)
(* (constructor, loadImage, draw, cleanup) and the helper functions it     *)
(* calls, run against a recording double of the WebGL2 rendering context.  *)
(* The double keeps the live GPU objects, the pending error flags, the     *)
(* drawing-buffer size, and the GL calls and console lines of the most     *)
(* recent operation.                                                       *)
(***************************************************************************)
EXTENDS Integers, Sequences, FiniteSets, TLC

(* ------------------------------ bounds -------------------------------- *)

\* Largest image width and height drawn as input.
MaxDim == 1
\* Largest channel count drawn as input (1, 3 and 4 are supported).
MaxChannels == 4
\* The number of samples a mismatched pixel buffer holds beyond
\* width*height*channels.
MaxExtra == 1
\* Largest drawing-buffer width and height.
MaxView == 2
\* Largest number of loadImage calls in a run.
MaxLoads == 2
\* Largest number of cleanup calls in a run.
MaxCleanups == 2
\* Largest number of GL error flags pending at once.
MaxGlErrors == 1
\* Largest number of faults the GL context produces during one construction.
MaxFaults == 2
\* The number of steps into which an axis of the viewport is divided to sample
\* the fragment shader's coordinate.
MaxGrid == 4

(* ----------------------------- constants ------------------------------ *)

\* null, for a WebGL object handle.
Null == 0
\* Float32Array.BYTES_PER_ELEMENT
BYTES_PER_ELEMENT == 4
\* 2^24: the integers up to it are exactly representable in a 32-bit float.
Float32Exact == 16777216

\* The size of a canvas that was given none: 300 x 150, twice as wide as
\* high.
CanvasDefault == <<2, 1>>

\* shaderProgramSources: the program names, in Object.entries order.
shaderProgramSources == <<"default">>

\* The quad's coordinates: VertexX, VertexY, TexCoordX, TexCoordY per vertex.
coordinates ==
    << 1,  1, 1, 0,
      -1,  1, 0, 0,
       1, -1, 1, 1,
      -1, -1, 0, 1 >>

(* ------------------------------ numbers ------------------------------- *)

\* A JavaScript number that is a ratio of two non-negative integers.
Num(n, d) == [n |-> n, d |-> d]

\* a / b
Div(a, b) == Num(a.n * b.d, a.d * b.n)

\* a > b
Gt(a, b) == a.n * b.d > b.n * a.d

\* Whether two ratios are the same number.
NumEq(a, b) == a.n * b.d = b.n * a.d

\* a - b, a * b, a + b (a numerator may be negative, a denominator never is)
Sub(a, b) == Num(a.n * b.d - b.n * a.d, a.d * b.d)
Mul(a, b) == Num(a.n * b.n, a.d * b.d)
Add(a, b) == Num(a.n * b.d + b.n * a.d, a.d * b.d)

\* a < b
Lt(a, b) == Gt(b, a)

RECURSIVE Pow2Below(_, _)
\* The largest power of two p * 2^k that is <= v, starting from p <= v.
Pow2Below(v, p) == IF 2 * p > v THEN p ELSE Pow2Below(v, 2 * p)

\* Math.fround on a non-negative integer: the nearest 32-bit float (24-bit
\* significand), ties to even.
Fround(v) ==
    IF v <= Float32Exact THEN v
    ELSE LET ulp  == Pow2Below(v, 1) \div (Float32Exact \div 2)
             low  == (v \div ulp) * ulp
             rest == v - low
         IN  IF 2 * rest < ulp THEN low
             ELSE IF 2 * rest > ulp THEN low + ulp
             ELSE IF (low \div ulp) % 2 = 0 THEN low ELSE low + ulp

(* --------------------------- the GL double ---------------------------- *)

VARIABLES
    gl,             \* the WebGL2 rendering context (a recording double)
    phase,          \* "new", "ready" (constructed) or "failed" (constructor threw)
    quadBuffer,     \* DrawContext.quadBuffer
    shaderPrograms, \* DrawContext.shaderPrograms: name -> program
    imageBuffer,    \* DrawContext.imageBuffer: <<>> (null) or <<image>>
    imageTexture,   \* DrawContext.imageTexture: Null or a texture
    lastOp,         \* the most recent operation
    before,         \* what the context held before that operation
    faults,         \* the faults the GL context produced during construction
    cleanups,       \* the number of cleanup calls made
    component,      \* the ImageDisplay component that owns the context, if any
    right,          \* the DrawContext of the page's right pane and its GL
                    \* context, when the context above is the left pane's
    fragment        \* a fragment of the quad in the fragment stage: what the
                    \* shader is given and the fragColor it writes

vars == <<gl, phase, quadBuffer, shaderPrograms, imageBuffer, imageTexture,
          lastOp, before, faults, cleanups, component, right, fragment>>

\* A fresh context: no object, no pending error, nothing called.
NewGl(w, h) ==
    [ buffers  |-> {}, shaders |-> {}, programs |-> {}, textures |-> {},
      created  |-> [buffer |-> 0, shader |-> 0, program |-> 0, texture |-> 0],
      errors   |-> 0,
      drawingBufferWidth  |-> w,
      drawingBufferHeight |-> h,
      calls    |-> <<>>,
      console  |-> <<>> ]

\* The double records a call: its name, its arguments, what it returned.
Call(g, fn, args, ret) ==
    [g EXCEPT !.calls = Append(@, [fn |-> fn, args |-> args, ret |-> ret])]

\* A call that raised a GL error leaves an error flag pending.
Raise(g, fault) ==
    IF fault /\ g.errors < MaxGlErrors THEN [g EXCEPT !.errors = @ + 1] ELSE g

\* console.log / console.error
Log(g, line) == [g EXCEPT !.console = Append(@, line)]

\* gl.createX(): a new live object, or null.
Create(g, kind, fn, args, null) ==
    IF null
    THEN [gl |-> Call(g, fn, args, Null), ret |-> Null]
    ELSE LET id == g.created[kind] + 1
             g1 == [g EXCEPT !.created[kind] = id]
             g2 == CASE kind = "buffer"  -> [g1 EXCEPT !.buffers  = @ \cup {id}]
                     [] kind = "shader"  -> [g1 EXCEPT !.shaders  = @ \cup {id}]
                     [] kind = "program" -> [g1 EXCEPT !.programs = @ \cup {id}]
                     [] OTHER            -> [g1 EXCEPT !.textures = @ \cup {id}]
         IN  [gl |-> Call(g2, fn, args, id), ret |-> id]

\* gl.deleteX(obj): the call records whether obj was live; deleting an object
\* that is already deleted has no effect.
DeleteBuffer(g, b) ==
    [Call(g, "deleteBuffer", <<b>>, b \in g.buffers) EXCEPT !.buffers = @ \ {b}]
DeleteShader(g, s) ==
    [Call(g, "deleteShader", <<s>>, s \in g.shaders) EXCEPT !.shaders = @ \ {s}]
DeleteProgram(g, p) ==
    [Call(g, "deleteProgram", <<p>>, p \in g.programs) EXCEPT !.programs = @ \ {p}]
DeleteTexture(g, t) ==
    [Call(g, "deleteTexture", <<t>>, t \in g.textures) EXCEPT !.textures = @ \ {t}]

(* ----------------------------- checkError ----------------------------- *)

\* checkError: poll gl.getError(), which returns and clears one pending flag;
\* log it when there is one.
checkError(g) ==
    LET error == g.errors > 0
        g1    == Call([g EXCEPT !.errors = IF error THEN @ - 1 ELSE @],
                      "getError", <<>>, error)
    IN  [gl |-> IF error THEN Log(g1, <<"WebGL Error">>) ELSE g1, ret |-> error]

(* ----------------------------- initBuffer ----------------------------- *)

\* What a function that may throw hands back.
Returned(g, value) == [gl |-> g, ret |-> value, threw |-> FALSE]
Threw(g) == [gl |-> g, ret |-> Null, threw |-> TRUE]

\* initBuffer after bufferData: e is what checkError found.
initBufferPopulated(quadBuffer_, e) ==
    IF e.ret THEN Threw(e.gl) ELSE Returned(e.gl, quadBuffer_)

\* initBuffer from bindBuffer on.
initBufferPopulate(g, quadBuffer_, F) ==
    initBufferPopulated(quadBuffer_,
        checkError(Raise(Call(Call(g, "bindBuffer", <<"ARRAY_BUFFER", quadBuffer_>>, Null),
                              "bufferData", <<"ARRAY_BUFFER", coordinates, "STATIC_DRAW">>, Null),
                         <<"bufferData", "error">> \in F)))

\* NullOrError without the poll of the error queue.
NullOrError_NoPoll(g, object) == [gl |-> g, ret |-> object = Null]

\* `!object || checkError(gl)': the error queue is polled only when the
\* object is not null.
NullOrError(g, object) ==
    IF object = Null THEN [gl |-> g, ret |-> TRUE] ELSE checkError(g)

\* initBuffer after createBuffer: e is the outcome of
\* `!quadBuffer || checkError(gl)'.
initBufferCreated(quadBuffer_, e, F) ==
    IF e.ret THEN Threw(e.gl) ELSE initBufferPopulate(e.gl, quadBuffer_, F)

\* gl.createBuffer() and the test that follows it.
initBufferCreate(c, F) ==
    initBufferCreated(c.ret, NullOrError(Raise(c.gl, <<"createBuffer", "error">> \in F), c.ret), F)

\* initBuffer: create and populate the quad buffer, or throw. F is the set of
\* faults the context produces.
initBuffer(g, F) ==
    initBufferCreate(Create(g, "buffer", "createBuffer", <<>>, <<"createBuffer", "null">> \in F), F)

(* ---------------------------- compileShader --------------------------- *)

\* `!status || checkError(gl)': the error queue is polled only when the
\* status is true.
NotOrError(g, status) ==
    IF ~status THEN [gl |-> g, ret |-> TRUE] ELSE checkError(g)

\* compileShader after the compile: e is the outcome of
\* `!gl.getShaderParameter(shader, gl.COMPILE_STATUS) || checkError(gl)'.
compileShaderCompiled(shader, e) ==
    IF e.ret
    THEN [gl |-> DeleteShader(Log(e.gl, <<"Failed to compile the shader">>), shader), ret |-> Null]
    ELSE [gl |-> e.gl, ret |-> shader]

\* compileShader from shaderSource to the read of COMPILE_STATUS.
compileShaderCompile(g, shader, type, status, F) ==
    compileShaderCompiled(shader,
        NotOrError(Call(Raise(Call(Call(g, "shaderSource", <<shader, type>>, Null),
                                   "compileShader", <<shader>>, Null),
                              <<type, "error">> \in F),
                        "getShaderParameter", <<shader, "COMPILE_STATUS">>, status),
                   status))

\* compileShader after createShader.
compileShaderCreated(c, type, F) ==
    IF c.ret = Null THEN c
    ELSE compileShaderCompile(c.gl, c.ret, type, <<type, "status">> \notin F, F)

\* compileShader: the compiled shader, or null (the failed shader deleted).
compileShader(g, type, F) ==
    compileShaderCreated(Create(g, "shader", "createShader", <<type>>, <<type, "null">> \in F),
                         type, F)

(* -------------------------- initShaderProgram ------------------------- *)

\* initShaderProgram after the link: e is the outcome of
\* `!gl.getProgramParameter(shaderProgram, gl.LINK_STATUS) || checkError(gl)'.
initShaderProgramLinked(shaderProgram, e) ==
    IF e.ret
    THEN [gl |-> Log(e.gl, <<"Failed to link the shader program">>), ret |-> Null]
    ELSE [gl |-> e.gl, ret |-> shaderProgram]

\* initShaderProgram from attachShader to the read of LINK_STATUS.
initShaderProgramLink(g, vertexShader, fragmentShader, shaderProgram, linked, F) ==
    initShaderProgramLinked(shaderProgram,
        NotOrError(Call(Raise(Call(Call(Call(g, "attachShader", <<shaderProgram, vertexShader>>, Null),
                                        "attachShader", <<shaderProgram, fragmentShader>>, Null),
                                   "linkProgram", <<shaderProgram>>, Null),
                              <<"linkProgram", "error">> \in F),
                        "getProgramParameter", <<shaderProgram, "LINK_STATUS">>, linked),
                   linked))

\* initShaderProgram after createProgram: e is the outcome of
\* `!shaderProgram || checkError(gl)'.
initShaderProgramCreated(vertexShader, fragmentShader, shaderProgram, e, F) ==
    IF e.ret
    THEN [gl |-> Log(e.gl, <<"Failed to create shader program.">>), ret |-> Null]
    ELSE initShaderProgramLink(e.gl, vertexShader, fragmentShader, shaderProgram,
                               <<"linkProgram", "status">> \notin F, F)

\* gl.createProgram() and the test that follows it.
initShaderProgramCreate(vertexShader, fragmentShader, p, F) ==
    initShaderProgramCreated(vertexShader, fragmentShader, p.ret,
        NullOrError(Raise(p.gl, <<"createProgram", "error">> \in F), p.ret), F)

\* initShaderProgram after the fragment shader: e is the outcome of
\* `!fragmentShader || checkError(gl)'.
initShaderProgramFragment(vertexShader, fragmentShader, e, F) ==
    IF e.ret
    THEN [gl |-> Log(e.gl, <<"Failed to create fragment shader.">>), ret |-> Null]
    ELSE initShaderProgramCreate(vertexShader, fragmentShader,
             Create(e.gl, "program", "createProgram", <<>>, <<"createProgram", "null">> \in F), F)

\* The fragment shader's compile and the test that follows it.
initShaderProgramCompileFragment(vertexShader, f, F) ==
    initShaderProgramFragment(vertexShader, f.ret, NullOrError(f.gl, f.ret), F)

\* initShaderProgram after the vertex shader: e is the outcome of
\* `!vertexShader || checkError(gl)'.
initShaderProgramVertex(vertexShader, e, F) ==
    IF e.ret
    THEN [gl |-> Log(e.gl, <<"Failed to create vertex shader.">>), ret |-> Null]
    ELSE initShaderProgramCompileFragment(vertexShader,
             compileShader(e.gl, "FRAGMENT_SHADER", F), F)

\* The vertex shader's compile and the test that follows it.
initShaderProgramCompileVertex(v, F) ==
    initShaderProgramVertex(v.ret, NullOrError(v.gl, v.ret), F)

\* initShaderProgram: the linked program, or null.
initShaderProgram(g, F) ==
    initShaderProgramCompileVertex(compileShader(g, "VERTEX_SHADER", F), F)

(* ------------------------- initShaderPrograms ------------------------- *)

RECURSIVE initShaderProgramsFrom(_, _, _, _)
RECURSIVE initShaderProgramsNext(_, _, _, _)
\* The loop body of initShaderPrograms after initShaderProgram returned p.
initShaderProgramsNext(p, F, i, programs) ==
    IF p.ret = Null
    THEN [gl |-> p.gl, ret |-> programs, threw |-> TRUE]
    ELSE initShaderProgramsFrom(p.gl, F, i + 1, programs @@ (shaderProgramSources[i] :> p.ret))

\* The loop of initShaderPrograms from entry i on, with the programs so far.
initShaderProgramsFrom(g, F, i, programs) ==
    IF i > Len(shaderProgramSources)
    THEN [gl |-> g, ret |-> programs, threw |-> FALSE]
    ELSE initShaderProgramsNext(initShaderProgram(g, F), F, i, programs)

\* initShaderPrograms: every named program, or throw.
initShaderPrograms(g, F) == initShaderProgramsFrom(g, F, 1, <<>>)

(* ------------------------------- images ------------------------------- *)

\* Sample values an image may hold: 8-bit, 16-bit and 32-bit unsigned.
Samples == <<0, 255, 65535, 16777217>>

\* A pixel buffer of n samples.
Pixels(n) == [i \in 1..n |-> Samples[((i - 1) % Len(Samples)) + 1]]

\* ImageBuffer: the images drawn as input, with a pixel count that matches
\* width*height*channels or exceeds it.
ImageBuffer ==
    { [pixels |-> Pixels(w * h * c + x), width |-> w, height |-> h, channels |-> c] :
        w \in 1..MaxDim, h \in 1..MaxDim, c \in 1..MaxChannels, x \in {0, MaxExtra} }

(* ------------------------ initTextureForImage ------------------------- *)

\* TextureFormat with case 3 given case 4's formats.
TextureFormat_CopiedCase(channels) ==
    CASE channels = 1 -> <<"R32F", "RED">>
      [] channels = 3 -> <<"RGBA32F", "RGBA">>
      [] channels = 4 -> <<"RGBA32F", "RGBA">>
      [] OTHER        -> <<>>

\* The switch on image.channels: <<internalFormat, format>>, or <<>> for the
\* default branch.
TextureFormat(channels) ==
    CASE channels = 1 -> <<"R32F", "RED">>
      [] channels = 3 -> <<"RGB32F", "RGB">>
      [] channels = 4 -> <<"RGBA32F", "RGBA">>
      [] OTHER        -> <<>>

\* new Float32Array(image.pixels.length), filled element by element.
ToFloat32Array(pixels) == [i \in 1..Len(pixels) |-> Fround(pixels[i])]

\* initTextureForImage after the texParameteri calls: e is what checkError found.
initTextureForImageDone(texture, e) ==
    IF e.ret
    THEN [gl |-> Log(e.gl, <<"Failed to set texture parameters.">>), ret |-> Null]
    ELSE [gl |-> e.gl, ret |-> texture]

\* The four texParameteri calls: no mipmapping, clamp to edge, nearest neighbor.
initTextureForImageParameters(g, texture, F) ==
    initTextureForImageDone(texture,
        checkError(Raise(
            Call(Call(Call(Call(g,
                "texParameteri", <<"TEXTURE_2D", "TEXTURE_WRAP_S", "CLAMP_TO_EDGE">>, Null),
                "texParameteri", <<"TEXTURE_2D", "TEXTURE_WRAP_T", "CLAMP_TO_EDGE">>, Null),
                "texParameteri", <<"TEXTURE_2D", "TEXTURE_MIN_FILTER", "NEAREST">>, Null),
                "texParameteri", <<"TEXTURE_2D", "TEXTURE_MAG_FILTER", "NEAREST">>, Null),
            <<"texParameteri", "error">> \in F)))

\* initTextureForImage after texImage2D: e is what checkError found.
initTextureForImageUploaded(texture, e, F) ==
    IF e.ret
    THEN [gl |-> Log(e.gl, <<"Failed to load image texture.">>), ret |-> Null]
    ELSE initTextureForImageParameters(e.gl, texture, F)

\* The conversion to float and the texImage2D call.
initTextureForImageUpload(g, texture, image, fmt, F) ==
    initTextureForImageUploaded(texture,
        checkError(Raise(
            Call(g, "texImage2D",
                 <<"TEXTURE_2D", 0, fmt[1], image.width, image.height, 0,
                   fmt[2], "FLOAT", ToFloat32Array(image.pixels)>>, Null),
            <<"texImage2D", "error">> \in F)),
        F)

\* initTextureForImageCheck with the switch on the channel count ahead of the
\* check of the pixel buffer's size.
initTextureForImageCheck_SwitchFirst(g, texture, image, F) ==
    IF TextureFormat(image.channels) = <<>>
    THEN [gl  |-> Log(g, <<"unsupported number of channels: ", image.channels>>),
          ret |-> Null]
    ELSE IF Len(image.pixels) # image.width * image.height * image.channels
    THEN [gl  |-> Log(g, <<"Invalid pixel count ", Len(image.pixels), " for ", image.width,
                           "x", image.height, "x", image.channels, " image">>),
          ret |-> Null]
    ELSE initTextureForImageUpload(g, texture, image, TextureFormat(image.channels), F)

\* The check of the pixel buffer's size, then the switch on the channel count.
initTextureForImageCheck(g, texture, image, F) ==
    IF Len(image.pixels) # image.width * image.height * image.channels
    THEN [gl  |-> Log(g, <<"Invalid pixel count ", Len(image.pixels), " for ", image.width,
                           "x", image.height, "x", image.channels, " image">>),
          ret |-> Null]
    ELSE IF TextureFormat(image.channels) = <<>>
    THEN [gl  |-> Log(g, <<"unsupported number of channels: ", image.channels>>),
          ret |-> Null]
    ELSE initTextureForImageUpload(g, texture, image, TextureFormat(image.channels), F)

\* gl.createTexture() and gl.bindTexture.
initTextureForImageCreated(c, image, F) ==
    initTextureForImageCheck(Call(c.gl, "bindTexture", <<"TEXTURE_2D", c.ret>>, Null),
                             c.ret, image, F)

\* initTextureForImage: the texture holding the image, or null. F is the set
\* of faults the context produces.
initTextureForImage(g, image, F) ==
    initTextureForImageCreated(Create(g, "texture", "createTexture", <<>>, FALSE), image, F)

(* ------------------------ DrawContext methods ------------------------- *)

\* The constructor after initBuffer returned b and initShaderPrograms s.
constructPrograms(b, s) ==
    [gl |-> s.gl, quadBuffer |-> b.ret,
     shaderPrograms |-> IF s.threw THEN <<>> ELSE s.ret, threw |-> s.threw]

\* The constructor after initBuffer returned b.
constructBuffer(b, F) ==
    IF b.threw
    THEN [gl |-> b.gl, quadBuffer |-> Null, shaderPrograms |-> <<>>, threw |-> TRUE]
    ELSE constructPrograms(b, initShaderPrograms(b.gl, F))

\* DrawContext.constructor: the context after it, the fields it set, and
\* whether it threw.
construct(g, F) == constructBuffer(initBuffer(g, F), F)

\* loadImage without the deleteTexture of the texture held.
loadImage_KeepsOld(g, texture, image, F) == initTextureForImage(g, image, F)

\* DrawContext.loadImage: the context after the call and the new imageTexture.
loadImage(g, texture, image, F) ==
    initTextureForImage(IF texture # Null THEN DeleteTexture(g, texture) ELSE g, image, F)

\* TexScale with the comparison of scaleX and scaleY the wrong way round.
TexScale_Reversed(width, height, image) ==
    LET scaleX == Div(Num(width, 1), Num(image.width, 1))
        scaleY == Div(Num(height, 1), Num(image.height, 1))
    IN  IF Gt(scaleY, scaleX)
        THEN <<Div(scaleX, scaleY), Num(1, 1)>>
        ELSE <<Num(1, 1), Div(scaleY, scaleX)>>

\* TexScale with each quotient upside down: the image fills the viewport and
\* is cropped.
TexScale_Fill(width, height, image) ==
    LET scaleX == Div(Num(width, 1), Num(image.width, 1))
        scaleY == Div(Num(height, 1), Num(image.height, 1))
    IN  IF Gt(scaleX, scaleY)
        THEN <<Div(scaleY, scaleX), Num(1, 1)>>
        ELSE <<Num(1, 1), Div(scaleX, scaleY)>>

\* The uTexScale uniform: scaleX / scaleY and 1, or 1 and scaleY / scaleX.
TexScale(width, height, image) ==
    LET scaleX == Div(Num(width, 1), Num(image.width, 1))
        scaleY == Div(Num(height, 1), Num(image.height, 1))
    IN  IF Gt(scaleX, scaleY)
        THEN <<Div(scaleX, scaleY), Num(1, 1)>>
        ELSE <<Num(1, 1), Div(scaleY, scaleX)>>

\* drawQuad with the viewport of the canvas's default size, not the drawing
\* buffer's size at the call.
drawQuad_DefaultViewport(g, programs, buffer) ==
    LET shaderProgram == programs["default"]
        stride == 4 * BYTES_PER_ELEMENT
        g1 == Call(g, "viewport", <<0, 0, CanvasDefault[1], CanvasDefault[2]>>, Null)
        g2 == Call(g1, "clearColor", <<0, 0, 0, 1>>, Null)
        g3 == Call(g2, "clear", <<"COLOR_BUFFER_BIT">>, Null)
        g4 == Call(g3, "useProgram", <<shaderProgram>>, Null)
        g5 == Call(g4, "bindBuffer", <<"ARRAY_BUFFER", buffer>>, Null)
        g6 == Call(g5, "getAttribLocation", <<shaderProgram, "aVertexPosition">>, "aVertexPosition")
    IN  Call(g6, "vertexAttribPointer", <<"aVertexPosition", 2, "FLOAT", FALSE, stride, 0>>, Null)

\* drawQuad writing the quad's coordinates into the buffer again at every
\* draw.
drawQuad_Repopulates(g, programs, buffer) ==
    LET shaderProgram == programs["default"]
        stride == 4 * BYTES_PER_ELEMENT
        g1 == Call(g, "viewport", <<0, 0, g.drawingBufferWidth, g.drawingBufferHeight>>, Null)
        g2 == Call(g1, "clearColor", <<0, 0, 0, 1>>, Null)
        g3 == Call(g2, "clear", <<"COLOR_BUFFER_BIT">>, Null)
        g4 == Call(g3, "useProgram", <<shaderProgram>>, Null)
        g5 == Call(g4, "bindBuffer", <<"ARRAY_BUFFER", buffer>>, Null)
        g6 == Call(g5, "bufferData", <<"ARRAY_BUFFER", coordinates, "STATIC_DRAW">>, Null)
        g7 == Call(g6, "getAttribLocation", <<shaderProgram, "aVertexPosition">>, "aVertexPosition")
    IN  Call(g7, "vertexAttribPointer", <<"aVertexPosition", 2, "FLOAT", FALSE, stride, 0>>, Null)

\* DrawContext.draw up to the test for a texture.
drawQuad(g, programs, buffer) ==
    LET shaderProgram == programs["default"]
        stride == 4 * BYTES_PER_ELEMENT
        g1 == Call(g, "viewport", <<0, 0, g.drawingBufferWidth, g.drawingBufferHeight>>, Null)
        g2 == Call(g1, "clearColor", <<0, 0, 0, 1>>, Null)
        g3 == Call(g2, "clear", <<"COLOR_BUFFER_BIT">>, Null)
        g4 == Call(g3, "useProgram", <<shaderProgram>>, Null)
        g5 == Call(g4, "bindBuffer", <<"ARRAY_BUFFER", buffer>>, Null)
        g6 == Call(g5, "getAttribLocation", <<shaderProgram, "aVertexPosition">>, "aVertexPosition")
    IN  Call(g6, "vertexAttribPointer", <<"aVertexPosition", 2, "FLOAT", FALSE, stride, 0>>, Null)

\* drawTexture binding the first texture the context created, not the
\* texture held.
drawTexture_FirstTexture(g, programs, texture, image) ==
    LET shaderProgram == programs["default"]
        stride == 4 * BYTES_PER_ELEMENT
        offset == 2 * BYTES_PER_ELEMENT
        scale  == TexScale(g.drawingBufferWidth, g.drawingBufferHeight, image)
        g1  == Call(g, "enableVertexAttribArray", <<"aVertexPosition">>, Null)
        g2  == Call(g1, "getAttribLocation", <<shaderProgram, "aTextureCoordinate">>, "aTextureCoordinate")
        g3  == Call(g2, "vertexAttribPointer", <<"aTextureCoordinate", 2, "FLOAT", FALSE, stride, offset>>, Null)
        g4  == Call(g3, "enableVertexAttribArray", <<"aTextureCoordinate">>, Null)
        g5  == Call(g4, "activeTexture", <<"TEXTURE0">>, Null)
        g6  == Call(g5, "bindTexture", <<"TEXTURE_2D", 1>>, Null)
        g7  == Call(g6, "getUniformLocation", <<shaderProgram, "uSampler">>, "uSampler")
        g8  == Call(g7, "uniform1i", <<"uSampler", 0>>, Null)
        g9  == Call(g8, "getUniformLocation", <<shaderProgram, "uTexScale">>, "uTexScale")
        g10 == Call(g9, "uniform2f", <<"uTexScale", scale[1], scale[2]>>, Null)
        g11 == Call(g10, "getUniformLocation", <<shaderProgram, "uTexCenter">>, "uTexCenter")
        g12 == Call(g11, "uniform2f", <<"uTexCenter", Num(1, 2), Num(1, 2)>>, Null)
    IN  Call(g12, "drawArrays", <<"TRIANGLE_STRIP", 0, 4>>, Null)

\* DrawContext.draw from the test for a texture on.
drawTexture(g, programs, texture, image) ==
    LET shaderProgram == programs["default"]
        stride == 4 * BYTES_PER_ELEMENT
        offset == 2 * BYTES_PER_ELEMENT
        scale  == TexScale(g.drawingBufferWidth, g.drawingBufferHeight, image)
        g1  == Call(g, "enableVertexAttribArray", <<"aVertexPosition">>, Null)
        g2  == Call(g1, "getAttribLocation", <<shaderProgram, "aTextureCoordinate">>, "aTextureCoordinate")
        g3  == Call(g2, "vertexAttribPointer", <<"aTextureCoordinate", 2, "FLOAT", FALSE, stride, offset>>, Null)
        g4  == Call(g3, "enableVertexAttribArray", <<"aTextureCoordinate">>, Null)
        g5  == Call(g4, "activeTexture", <<"TEXTURE0">>, Null)
        g6  == Call(g5, "bindTexture", <<"TEXTURE_2D", texture>>, Null)
        g7  == Call(g6, "getUniformLocation", <<shaderProgram, "uSampler">>, "uSampler")
        g8  == Call(g7, "uniform1i", <<"uSampler", 0>>, Null)
        g9  == Call(g8, "getUniformLocation", <<shaderProgram, "uTexScale">>, "uTexScale")
        g10 == Call(g9, "uniform2f", <<"uTexScale", scale[1], scale[2]>>, Null)
        g11 == Call(g10, "getUniformLocation", <<shaderProgram, "uTexCenter">>, "uTexCenter")
        g12 == Call(g11, "uniform2f", <<"uTexCenter", Num(1, 2), Num(1, 2)>>, Null)
    IN  Call(g12, "drawArrays", <<"TRIANGLE_STRIP", 0, 4>>, Null)

\* HasTexture without the test of imageTexture.
HasTexture_ImageOnly(texture, image) == image # <<>>

\* Whether draw goes on to render: `!this.imageTexture || !this.imageBuffer'
\* is false.
HasTexture(texture, image) == texture # Null /\ image # <<>>

\* draw releasing the texture once it has rendered it.
draw_ReleasesTexture(g, programs, buffer, texture, image) ==
    LET q == drawQuad(g, programs, buffer)
    IN  IF HasTexture(texture, image)
        THEN DeleteTexture(drawTexture(q, programs, texture, image[1]), texture)
        ELSE q

\* DrawContext.draw
draw(g, programs, buffer, texture, image) ==
    LET q == drawQuad(g, programs, buffer)
    IN  IF HasTexture(texture, image) THEN drawTexture(q, programs, texture, image[1]) ELSE q

RECURSIVE deletePrograms(_, _, _)
\* The loop of cleanup over Object.values(this.shaderPrograms), from entry i on.
deletePrograms(g, programs, i) ==
    IF i > Len(shaderProgramSources) THEN g
    ELSE deletePrograms(
             IF shaderProgramSources[i] \in DOMAIN programs
             THEN DeleteProgram(g, programs[shaderProgramSources[i]]) ELSE g,
             programs, i + 1)

\* cleanup without the test of imageTexture around deleteTexture.
cleanup_Unguarded(g, programs, buffer, texture) ==
    DeleteBuffer(deletePrograms(DeleteTexture(g, texture), programs, 1), buffer)

\* DrawContext.cleanup
cleanup(g, programs, buffer, texture) ==
    LET g1 == IF texture # Null THEN DeleteTexture(g, texture) ELSE g
    IN  DeleteBuffer(deletePrograms(g1, programs, 1), buffer)

(* ------------------------ the fragment shader ------------------------- *)

\* default.frag, main: one axis of
\* `((vTextureCoordinate - uTexCenter) * uTexScale) + uTexCenter'.
texCoord(vTextureCoordinate, uTexCenter, uTexScale) ==
    Add(Mul(Sub(vTextureCoordinate, uTexCenter), uTexScale), uTexCenter)

\* default.frag, main: one axis of the test for the else branch, the
\* negation of `texCoord.s < 0.0 || texCoord.s > 1.0'.
InTexture(t) == ~(Lt(t, Num(0, 1)) \/ Gt(t, Num(1, 1)))

\* texture(uSampler, texCoord) for a coordinate inside [0, 1], with the
\* NEAREST filters loadImage sets: the texel whose cell holds the coordinate,
\* the last one at coordinate 1.
TexelIndex(t, size) ==
    IF (t.n * size) \div t.d >= size THEN size - 1 ELSE (t.n * size) \div t.d

\* texture(uSampler, texCoord): a vec4.
texture(uSampler, s, t) ==
    uSampler.texels[TexelIndex(t, uSampler.height) * uSampler.width
                    + TexelIndex(s, uSampler.width) + 1]

\* main with an opaque border: alpha 1 outside the texture.
main_OpaqueBorder(vTextureCoordinate, uTexCenter, uTexScale, uSampler) ==
    LET s == texCoord(vTextureCoordinate[1], uTexCenter[1], uTexScale[1])
        t == texCoord(vTextureCoordinate[2], uTexCenter[2], uTexScale[2])
        color == texture(uSampler, s, t)
    IN  IF ~InTexture(s) \/ ~InTexture(t)
        THEN <<Num(0, 1), Num(0, 1), Num(0, 1), Num(1, 1)>>
        ELSE <<Div(Num(color[1], 1), Num(255, 1)), Div(Num(color[2], 1), Num(255, 1)),
               Div(Num(color[3], 1), Num(255, 1)), Num(1, 1)>>

\* default.frag, main: the fragColor of a fragment.
main(vTextureCoordinate, uTexCenter, uTexScale, uSampler) ==
    LET s == texCoord(vTextureCoordinate[1], uTexCenter[1], uTexScale[1])
        t == texCoord(vTextureCoordinate[2], uTexCenter[2], uTexScale[2])
        color == texture(uSampler, s, t)
    IN  IF ~InTexture(s) \/ ~InTexture(t)
        THEN <<Num(0, 1), Num(0, 1), Num(0, 1), Num(0, 1)>>
        ELSE <<Div(Num(color[1], 1), Num(255, 1)), Div(Num(color[2], 1), Num(255, 1)),
               Div(Num(color[3], 1), Num(255, 1)), Num(1, 1)>>

(* ------------------------------ actions ------------------------------- *)

\* The faults a context may produce during construction: a create call that
\* returns null, a compile or link status that is false, a call that raises a
\* GL error.
ConstructFaults ==
    { <<"createBuffer", "null">>, <<"createBuffer", "error">>, <<"bufferData", "error">>,
      <<"VERTEX_SHADER", "null">>, <<"VERTEX_SHADER", "status">>, <<"VERTEX_SHADER", "error">>,
      <<"FRAGMENT_SHADER", "null">>, <<"FRAGMENT_SHADER", "status">>, <<"FRAGMENT_SHADER", "error">>,
      <<"createProgram", "null">>, <<"createProgram", "error">>,
      <<"linkProgram", "status">>, <<"linkProgram", "error">> }

\* The faults a context may produce during a texture upload.
LoadFaults == { <<"texImage2D", "error">>, <<"texParameteri", "error">> }

\* The double starts recording an operation: no call and no console line yet.
Begin(g) == [g EXCEPT !.calls = <<>>, !.console = <<>>]

\* Whether loadImage rejects the image as invalid input: a pixel count that
\* does not match, or a channel count that is not 1, 3 or 4.
Rejected(image) ==
    \/ Len(image.pixels) # image.width * image.height * image.channels
    \/ image.channels \notin {1, 3, 4}

\* What `before' keeps of the state an operation starts in: the texture held,
\* and whether the image held is one loadImage rejected.
Snapshot ==
    [imageTexture |-> imageTexture,
     rejected     |-> imageBuffer # <<>> /\ Rejected(imageBuffer[1])]

\* No component: the DrawContext is driven directly by its caller.
NoComponent == [file |-> "none"]

\* The fields of a DrawContext before construction, on the fresh GL context
\* of a canvas that was not yet sized.
NewContext ==
    /\ gl = NewGl(CanvasDefault[1], CanvasDefault[2])
    /\ phase = "new"
    /\ quadBuffer = Null
    /\ shaderPrograms = <<>>
    /\ imageBuffer = <<>>
    /\ imageTexture = Null
    /\ lastOp = "none"
    /\ before = [imageTexture |-> Null, rejected |-> FALSE]
    /\ faults = {}
    /\ cleanups = 0

\* No second pane: one DrawContext alone.
NoPane == [acted |-> "none"]

\* No fragment: nothing is being rasterized.
NoFragment == [stage |-> "none"]

Init == NewContext /\ component = NoComponent /\ right = NoPane /\ fragment = NoFragment

\* new DrawContext(gl)
Construct ==
    /\ phase = "new"
    /\ \E F \in SUBSET ConstructFaults :
         /\ Cardinality(F) <= MaxFaults
         /\ LET c == construct(Begin(gl), F)
            IN  /\ gl' = c.gl
                /\ phase' = IF c.threw THEN "failed" ELSE "ready"
                /\ quadBuffer' = c.quadBuffer
                /\ shaderPrograms' = c.shaderPrograms
                /\ faults' = F
    /\ lastOp' = "construct"
    /\ before' = Snapshot
    /\ UNCHANGED <<imageBuffer, imageTexture, cleanups, component, right, fragment>>

\* The context is constructed and not cleaned up: by the documented
\* precondition no loadImage or draw follows a cleanup.
InUse == phase = "ready" /\ cleanups = 0

\* The faults a context may produce while it loads the image: none for an
\* image that is rejected before the upload, at most the first one otherwise
\* (a load stops at the first error it finds).
LoadFaultSets(image) ==
    IF Rejected(image) THEN {{}} ELSE {{}} \cup {{f} : f \in LoadFaults}

\* drawContext.loadImage(image)
LoadImage ==
    /\ InUse
    /\ gl.created.texture < MaxLoads
    /\ \E image \in ImageBuffer : \E F \in LoadFaultSets(image) :
         LET r == loadImage(Begin(gl), imageTexture, image, F)
         IN  /\ gl' = r.gl
             /\ imageBuffer' = <<image>>
             /\ imageTexture' = r.ret
    /\ lastOp' = "loadImage"
    /\ before' = Snapshot
    /\ UNCHANGED <<phase, quadBuffer, shaderPrograms, faults, cleanups, component, right, fragment>>

\* drawContext.draw(); one of its calls may raise a GL error, which draw
\* never polls.
Draw ==
    /\ InUse
    /\ \E fault \in BOOLEAN :
         gl' = Raise(draw(Begin(gl), shaderPrograms, quadBuffer, imageTexture, imageBuffer), fault)
    /\ lastOp' = "draw"
    /\ before' = Snapshot
    /\ UNCHANGED <<phase, quadBuffer, shaderPrograms, imageBuffer, imageTexture, faults, cleanups, component, right, fragment>>

\* drawContext.cleanup()
Cleanup ==
    /\ phase = "ready"
    /\ cleanups < MaxCleanups
    /\ gl' = cleanup(Begin(gl), shaderPrograms, quadBuffer, imageTexture)
    /\ lastOp' = "cleanup"
    /\ before' = Snapshot
    /\ cleanups' = cleanups + 1
    /\ UNCHANGED <<phase, quadBuffer, shaderPrograms, imageBuffer, imageTexture, faults, component, right, fragment>>

\* The canvas is given a new size: the drawing buffer follows it.
Resize ==
    /\ InUse
    /\ \E w \in 1..MaxView, h \in 1..MaxView :
         /\ <<w, h>> # <<gl.drawingBufferWidth, gl.drawingBufferHeight>>
         /\ gl' = [Begin(gl) EXCEPT !.drawingBufferWidth = w, !.drawingBufferHeight = h]
    /\ lastOp' = "resize"
    /\ before' = Snapshot
    /\ UNCHANGED <<phase, quadBuffer, shaderPrograms, imageBuffer, imageTexture, faults, cleanups, component, right, fragment>>

Next == Construct \/ LoadImage \/ Draw \/ Cleanup \/ Resize

Spec == Init /\ [][Next]_vars

(* --------------------- the ImageDisplay component -------------------- *)

\* The DrawContext a handler works on, with its GL context: the fields, the
\* DrawContext methods the handler has invoked so far, and whether the
\* constructor threw.
Context ==
    [gl |-> Begin(gl), quadBuffer |-> quadBuffer, shaderPrograms |-> shaderPrograms,
     imageBuffer |-> imageBuffer, imageTexture |-> imageTexture,
     methods |-> <<>>, threw |-> FALSE]

\* drawContext = new DrawContext(gl)
NewOn(ctx, c) ==
    [ctx EXCEPT !.gl = c.gl, !.quadBuffer = c.quadBuffer,
                !.shaderPrograms = c.shaderPrograms,
                !.methods = Append(@, "new"), !.threw = c.threw]

\* drawContext.draw()
DrawOn(ctx) ==
    [ctx EXCEPT !.gl = draw(@, ctx.shaderPrograms, ctx.quadBuffer,
                            ctx.imageTexture, ctx.imageBuffer),
                !.methods = Append(@, "draw")]

\* drawContext.loadImage(image): r is what loadImage returned.
LoadedOn(ctx, image, r) ==
    [ctx EXCEPT !.gl = r.gl, !.imageBuffer = <<image>>, !.imageTexture = r.ret,
                !.methods = Append(@, "loadImage")]

\* drawContext.loadImage(image)
LoadOn(ctx, image, F) == LoadedOn(ctx, image, loadImage(ctx.gl, ctx.imageTexture, image, F))

\* drawContext.cleanup()
CleanupOn(ctx) ==
    [ctx EXCEPT !.gl = cleanup(@, ctx.shaderPrograms, ctx.quadBuffer, ctx.imageTexture),
                !.methods = Append(@, "cleanup")]

\* The reactive statement with draw ahead of loadImage.
reactive_DrawsFirst(ctx, comp, F) ==
    IF comp.drawContext /\ comp.imageBuffer # <<>>
    THEN LoadOn(DrawOn(ctx), comp.imageBuffer[1], F)
    ELSE ctx

\* `$: if (drawContext && imageBuffer) { loadImage; draw }': the reactive
\* statement, run when drawContext or imageBuffer was assigned.
reactive(ctx, comp, F) ==
    IF comp.drawContext /\ comp.imageBuffer # <<>>
    THEN DrawOn(LoadOn(ctx, comp.imageBuffer[1], F))
    ELSE ctx

\* canvas.width = canvas.offsetWidth; canvas.height = canvas.offsetHeight: the
\* drawing buffer takes the canvas's size.
Sized(ctx, comp) ==
    [ctx EXCEPT !.gl.drawingBufferWidth = comp.offsetWidth,
                !.gl.drawingBufferHeight = comp.offsetHeight]

\* resizeCanvas with the draw ahead of the assignments to the canvas's size.
resizeCanvas_DrawsFirst(ctx, comp) ==
    IF comp.drawContext THEN Sized(DrawOn(ctx), comp) ELSE Sized(ctx, comp)

\* resizeCanvas
resizeCanvas(ctx, comp) ==
    IF comp.drawContext THEN DrawOn(Sized(ctx, comp)) ELSE Sized(ctx, comp)

\* onMount from the ResizeObserver on: the observer is created and observes
\* the canvas, which queues a first notification; resizeCanvas; draw.
onMountObserve(ctx, comp) ==
    [ctx |-> DrawOn(resizeCanvas(ctx, comp)),
     component |-> [comp EXCEPT !.canvasResizeObserver = TRUE,
                                !.observing = TRUE, !.notify = TRUE]]

\* onMount after `new DrawContext(gl)': c is the context after the
\* constructor, which may have thrown.
onMountConstructed(c, comp) ==
    IF c.threw
    THEN [ctx |-> c, component |-> [comp EXCEPT !.raised = TRUE]]
    ELSE onMountObserve(c, [comp EXCEPT !.drawContext = TRUE])

\* onMount up to the two tests of the canvas's capabilities.
onMountSetup(comp) ==
    CASE comp.support = "noContext" ->
           [comp EXCEPT !.alert = <<"WebGL2 is not supported - please check browser compatibility.">>]
      [] comp.support = "noExtension" ->
           [comp EXCEPT !.alert = <<"Floating point textures are not supported on this system.">>]
      [] OTHER -> comp

\* onMount of the ImageDisplay that takes an image and follows its canvas's
\* size. F is the set of faults the GL context produces.
onMount(ctx, comp, F) ==
    IF onMountSetup(comp).alert # <<>>
    THEN [ctx |-> ctx, component |-> onMountSetup(comp)]
    ELSE onMountConstructed(NewOn(ctx, construct(ctx.gl, F)), comp)

\* unobserve that leaves the observer observing the canvas.
unobserve_Keeps(comp) == comp

\* `if (canvasResizeObserver) canvasResizeObserver.unobserve(canvas)': no
\* notification for the canvas is delivered after it.
unobserve(comp) ==
    IF comp.canvasResizeObserver
    THEN [comp EXCEPT !.observing = FALSE, !.notify = FALSE]
    ELSE comp

\* onDestroy of the same component.
onDestroy(ctx, comp) ==
    [ctx |-> IF comp.drawContext THEN CleanupOn(ctx) ELSE ctx,
     component |-> unobserve(comp)]

\* onMount of lib/ImageDisplay/ImageDisplay.svelte after `new DrawContext(gl)':
\* draw, then clearColor and clear on the GL context.
lib_onMountConstructed(c, comp) ==
    IF c.threw
    THEN [ctx |-> c, component |-> [comp EXCEPT !.raised = TRUE]]
    ELSE [ctx |-> [DrawOn(c) EXCEPT
                      !.gl = Call(Call(@, "clearColor", <<0, 0, 0, 1>>, Null),
                                  "clear", <<"COLOR_BUFFER_BIT">>, Null)],
          component |-> [comp EXCEPT !.drawContext = TRUE]]

\* onMount of lib/ImageDisplay/ImageDisplay.svelte
lib_onMount(ctx, comp, F) ==
    IF onMountSetup(comp).alert # <<>>
    THEN [ctx |-> ctx, component |-> onMountSetup(comp)]
    ELSE lib_onMountConstructed(NewOn(ctx, construct(ctx.gl, F)), comp)

\* onDestroy of lib/ImageDisplay/ImageDisplay.svelte: `drawContext.cleanup()'
\* with no test of drawContext, a TypeError when it is undefined.
lib_onDestroy(ctx, comp) ==
    IF comp.drawContext
    THEN [ctx |-> CleanupOn(ctx), component |-> comp]
    ELSE [ctx |-> ctx, component |-> [comp EXCEPT !.raised = TRUE]]

\* The images the page hands to the component: what the PNG decoder returns,
\* with as many samples as width*height*channels; here of the largest size,
\* greyscale (1 channel) or greyscale with alpha (2 channels).
DecodedImages ==
    { image \in ImageBuffer :
        /\ Len(image.pixels) = image.width * image.height * image.channels
        /\ image.width = MaxDim /\ image.height = MaxDim
        /\ image.channels \in {1, 2} }

\* The faults the GL context may produce while a component is mounted: none,
\* a failure of the constructor's first step, or a failure of its last.
MountFaultSets == {{}, {<<"createBuffer", "null">>}, {<<"linkProgram", "status">>}}

\* A component as created: which file it is ("routes": the ImageDisplay of
\* routes/+page.svelte; "lib": lib/ImageDisplay/ImageDisplay.svelte), what its
\* canvas supports, the size at which the canvas is displayed.
NewDisplay(file, support, w, h) ==
    [file |-> file, support |-> support, stage |-> "created",
     drawContext |-> FALSE, canvasResizeObserver |-> FALSE,
     observing |-> FALSE, notify |-> FALSE,
     imageBuffer |-> <<>>, offsetWidth |-> w, offsetHeight |-> h,
     alert |-> <<>>, raised |-> FALSE, methods |-> <<>>]

\* The component as a handler starts: no alert, nothing raised, no DrawContext
\* method invoked yet.
Started == [component EXCEPT !.alert = <<>>, !.raised = FALSE, !.methods = <<>>]

\* The state of the DrawContext after new DrawContext(gl), if it was called.
Phase(ctx) ==
    IF ctx.methods = <<>> THEN phase ELSE IF ctx.threw THEN "failed" ELSE "ready"

\* What a handler leaves: the DrawContext's fields and its GL context.
Handled(ctx, op) ==
    /\ lastOp' = op
    /\ before' = Snapshot
    /\ gl' = ctx.gl
    /\ quadBuffer' = ctx.quadBuffer
    /\ shaderPrograms' = ctx.shaderPrograms
    /\ imageBuffer' = ctx.imageBuffer
    /\ imageTexture' = ctx.imageTexture
    /\ cleanups' = cleanups + Len(SelectSeq(ctx.methods, LAMBDA m : m = "cleanup"))

ImageDisplayInit ==
    /\ NewContext
    /\ right = NoPane
    /\ fragment = NoFragment
    /\ \E support \in {"ok", "noContext", "noExtension"} :
         \/ \E w \in 1..MaxView, h \in 1..MaxView :
              component = NewDisplay("routes", support, w, h)
         \/ component = NewDisplay("lib", support, CanvasDefault[1], CanvasDefault[2])

\* The component is mounted: onMount runs, and the update it schedules by
\* assigning drawContext runs the reactive statement.
Mount ==
    /\ component.file = "routes"
    /\ component.stage = "created"
    /\ \E F \in MountFaultSets :
       \E LF \in (IF component.imageBuffer = <<>> THEN {{}}
                  ELSE LoadFaultSets(component.imageBuffer[1])) :
         LET m == onMount(Context, Started, F)
             r == reactive(m.ctx, m.component, LF)
         IN  /\ Handled(r, "onMount")
             /\ component' = [m.component EXCEPT !.stage = "mounted", !.methods = r.methods]
             /\ phase' = Phase(r)
             /\ faults' = IF r.methods = <<>> THEN {} ELSE F
    /\ UNCHANGED <<right, fragment>>

\* The page assigns the decoded image to the component's imageBuffer: the
\* reactive statement runs.
ImageChange ==
    /\ component.file = "routes"
    /\ component.stage # "destroyed"
    /\ gl.created.texture < MaxLoads
    /\ \E image \in DecodedImages : \E F \in LoadFaultSets(image) :
         LET r == reactive(Context, [Started EXCEPT !.imageBuffer = <<image>>], F)
         IN  /\ Handled(r, "imageChange")
             /\ component' = [Started EXCEPT !.imageBuffer = <<image>>, !.methods = r.methods]
    /\ UNCHANGED <<phase, faults, right, fragment>>

\* The layout gives the canvas a new displayed size; an observer that
\* observes the canvas is owed a notification.
DisplayResize ==
    /\ component.file = "routes"
    /\ component.stage = "mounted"
    /\ \E w \in 1..MaxView, h \in 1..MaxView :
         /\ <<w, h>> # <<component.offsetWidth, component.offsetHeight>>
         /\ component' = [component EXCEPT !.offsetWidth = w, !.offsetHeight = h,
                                           !.notify = component.observing]
    /\ UNCHANGED <<gl, phase, quadBuffer, shaderPrograms, imageBuffer, imageTexture,
                   lastOp, before, faults, cleanups, right, fragment>>

\* The ResizeObserver delivers the notification: its callback runs
\* resizeCanvas for the canvas.
ResizeNotification ==
    /\ component.observing
    /\ component.notify
    /\ \E r \in {resizeCanvas(Context, [Started EXCEPT !.notify = FALSE])} :
           /\ Handled(r, "resizeCanvas")
           /\ component' = [Started EXCEPT !.notify = FALSE, !.methods = r.methods]
    /\ UNCHANGED <<phase, faults, right, fragment>>

\* The component is destroyed: onDestroy runs.
Destroy ==
    /\ component.file = "routes"
    /\ component.stage = "mounted"
    /\ LET r == onDestroy(Context, Started)
       IN  /\ Handled(r.ctx, "onDestroy")
           /\ component' = [r.component EXCEPT !.stage = "destroyed", !.methods = r.ctx.methods]
    /\ UNCHANGED <<phase, faults, right, fragment>>

\* lib/ImageDisplay/ImageDisplay.svelte is mounted.
LibMount ==
    /\ component.file = "lib"
    /\ component.stage = "created"
    /\ \E F \in MountFaultSets :
         LET r == lib_onMount(Context, Started, F)
         IN  /\ Handled(r.ctx, "onMount")
             /\ component' = [r.component EXCEPT !.stage = "mounted", !.methods = r.ctx.methods]
             /\ phase' = Phase(r.ctx)
             /\ faults' = IF r.ctx.methods = <<>> THEN {} ELSE F
    /\ UNCHANGED <<right, fragment>>

\* lib/ImageDisplay/ImageDisplay.svelte is destroyed.
LibDestroy ==
    /\ component.file = "lib"
    /\ component.stage = "mounted"
    /\ LET r == lib_onDestroy(Context, Started)
       IN  /\ Handled(r.ctx, "onDestroy")
           /\ component' = [r.component EXCEPT !.stage = "destroyed", !.methods = r.ctx.methods]
    /\ UNCHANGED <<phase, faults, right, fragment>>

ImageDisplayNext ==
    \/ Mount \/ ImageChange \/ DisplayResize \/ ResizeNotification \/ Destroy
    \/ LibMount \/ LibDestroy

\* The component and the events that reach it, in any order.
ImageDisplay == ImageDisplayInit /\ [][ImageDisplayNext]_vars

\* The same, with every notification owed to the ResizeObserver delivered
\* unless the component is destroyed first.
ImageDisplayFair == ImageDisplay /\ WF_vars(ResizeNotification)

(* ---------------------------- the two panes -------------------------- *)

\* The page's two ImageDisplay instances.
PaneNames == {"left", "right"}

\* Both panes drawing on the left pane's canvas.
CanvasOf_Shared(p) == "left"

\* The canvas of a pane: each ImageDisplay instance binds its own <canvas>
\* element and asks it for its context.
CanvasOf(p) == p

\* canvas.getContext('webgl2'): the GL context of a canvas.
GlOf(canvas) == IF canvas = "left" THEN gl ELSE right.gl

\* The fields of a pane's DrawContext.
Pane(p) ==
    IF p = "left"
    THEN [phase |-> phase, quadBuffer |-> quadBuffer, shaderPrograms |-> shaderPrograms,
          imageBuffer |-> imageBuffer, imageTexture |-> imageTexture, cleanups |-> cleanups]
    ELSE [phase |-> right.phase, quadBuffer |-> right.quadBuffer,
          shaderPrograms |-> right.shaderPrograms, imageBuffer |-> right.imageBuffer,
          imageTexture |-> right.imageTexture, cleanups |-> right.cleanups]

\* What an operation on pane p leaves: d in the fields of that pane's
\* DrawContext, g as the GL context of that pane's canvas; every other field
\* and the other canvas's context as they were.
Put(p, op, d, g) ==
    /\ lastOp' = op
    /\ before' = Snapshot
    /\ gl' = IF CanvasOf(p) = "left" THEN g ELSE gl
    /\ phase' = IF p = "left" THEN d.phase ELSE phase
    /\ quadBuffer' = IF p = "left" THEN d.quadBuffer ELSE quadBuffer
    /\ shaderPrograms' = IF p = "left" THEN d.shaderPrograms ELSE shaderPrograms
    /\ imageBuffer' = IF p = "left" THEN d.imageBuffer ELSE imageBuffer
    /\ imageTexture' = IF p = "left" THEN d.imageTexture ELSE imageTexture
    /\ cleanups' = IF p = "left" THEN d.cleanups ELSE cleanups
    /\ right' = [gl |-> IF CanvasOf(p) = "right" THEN g ELSE right.gl,
                 phase |-> IF p = "right" THEN d.phase ELSE right.phase,
                 quadBuffer |-> IF p = "right" THEN d.quadBuffer ELSE right.quadBuffer,
                 shaderPrograms |-> IF p = "right" THEN d.shaderPrograms
                                    ELSE right.shaderPrograms,
                 imageBuffer |-> IF p = "right" THEN d.imageBuffer ELSE right.imageBuffer,
                 imageTexture |-> IF p = "right" THEN d.imageTexture ELSE right.imageTexture,
                 cleanups |-> IF p = "right" THEN d.cleanups ELSE right.cleanups,
                 acted |-> p]
    /\ UNCHANGED <<faults, component, fragment>>

\* The right pane before construction, on the fresh GL context of its canvas.
NewPane ==
    [gl |-> NewGl(CanvasDefault[1], CanvasDefault[2]), phase |-> "new", quadBuffer |-> Null,
     shaderPrograms |-> <<>>, imageBuffer |-> <<>>, imageTexture |-> Null,
     cleanups |-> 0, acted |-> "none"]

TwoPanesInit ==
    NewContext /\ component = NoComponent /\ right = NewPane /\ fragment = NoFragment

\* new DrawContext(gl) in pane p
PaneConstruct(p) ==
    /\ Pane(p).phase = "new"
    /\ \E F \in MountFaultSets :
       \E c \in {construct(Begin(GlOf(CanvasOf(p))), F)} :
         Put(p, "construct",
             [Pane(p) EXCEPT !.phase = IF c.threw THEN "failed" ELSE "ready",
                             !.quadBuffer = c.quadBuffer,
                             !.shaderPrograms = c.shaderPrograms],
             c.gl)

\* drawContext.loadImage(image) in pane p
PaneLoadImage(p) ==
    /\ Pane(p).phase = "ready" /\ Pane(p).cleanups = 0
    /\ GlOf(CanvasOf(p)).created.texture < MaxLoads
    /\ \E image \in DecodedImages :
       \E r \in {loadImage(Begin(GlOf(CanvasOf(p))), Pane(p).imageTexture, image, {})} :
         Put(p, "loadImage",
             [Pane(p) EXCEPT !.imageBuffer = <<image>>, !.imageTexture = r.ret], r.gl)

\* drawContext.draw() in pane p
PaneDraw(p) ==
    /\ Pane(p).phase = "ready" /\ Pane(p).cleanups = 0
    /\ Put(p, "draw", Pane(p),
           draw(Begin(GlOf(CanvasOf(p))), Pane(p).shaderPrograms, Pane(p).quadBuffer,
                Pane(p).imageTexture, Pane(p).imageBuffer))

\* drawContext.cleanup() in pane p
PaneCleanup(p) ==
    /\ Pane(p).phase = "ready" /\ Pane(p).cleanups = 0
    /\ Put(p, "cleanup", [Pane(p) EXCEPT !.cleanups = @ + 1],
           cleanup(Begin(GlOf(CanvasOf(p))), Pane(p).shaderPrograms, Pane(p).quadBuffer,
                   Pane(p).imageTexture))

TwoPanesNext ==
    \E p \in PaneNames :
        PaneConstruct(p) \/ PaneLoadImage(p) \/ PaneDraw(p) \/ PaneCleanup(p)

\* The two panes' DrawContexts, each operated in any order.
TwoPanes == TwoPanesInit /\ [][TwoPanesNext]_vars

(* -------------------------- the fragment stage ----------------------- *)

\* The interpolated coordinates of the fragments: the points of a grid over
\* the quad, its edges included.
Coordinates == { <<Num(i, MaxGrid), Num(j, MaxGrid)>> : i, j \in 0..MaxGrid }

\* The centers a caller may pass as uTexCenter: the middle of the texture, as
\* draw does, or its origin.
TexCenters == { <<Num(1, 2), Num(1, 2)>>, <<Num(0, 1), Num(0, 1)>> }

\* The scales a caller may pass as uTexScale on one axis: 1, as draw does on
\* the axis that fits; 2, a letterboxed axis; 1/2, a magnified one.
TexScales == { Num(1, 1), Num(2, 1), Num(1, 2) }

\* The textures bound to uSampler: a 1 x 1 texture of one R32F texel (green
\* and blue read 0, alpha 1), and a 2 x 1 texture of RGB32F texels.
Samplers ==
    { [width |-> 1, height |-> 1, texels |-> <<<<Samples[2], 0, 0, 1>>>>],
      [width |-> 2, height |-> 1,
       texels |-> << <<Samples[1], Samples[2], Samples[3], 1>>,
                     <<Samples[3], Samples[1], Samples[2], 1>> >>] }

\* A fragment enters the fragment stage with its interpolated coordinate and
\* the uniforms of the draw call.
FragmentInit ==
    /\ NewContext
    /\ component = NoComponent
    /\ right = NoPane
    /\ \E v \in Coordinates, c \in TexCenters, sx \in TexScales, sy \in TexScales,
          u \in Samplers :
          fragment = [stage |-> "rasterized", vTextureCoordinate |-> v, uTexCenter |-> c,
                      uTexScale |-> <<sx, sy>>, uSampler |-> u]

\* The fragment shader runs for the fragment and writes fragColor.
Shade ==
    /\ fragment.stage = "rasterized"
    /\ fragment' = [stage |-> "shaded",
                    vTextureCoordinate |-> fragment.vTextureCoordinate,
                    uTexCenter |-> fragment.uTexCenter,
                    uTexScale |-> fragment.uTexScale,
                    uSampler |-> fragment.uSampler,
                    fragColor |-> main(fragment.vTextureCoordinate, fragment.uTexCenter,
                                       fragment.uTexScale, fragment.uSampler)]
    /\ UNCHANGED <<gl, phase, quadBuffer, shaderPrograms, imageBuffer, imageTexture,
                   lastOp, before, faults, cleanups, component, right>>

\* The default fragment stage over the fragments of a quad.
FragmentStage == FragmentInit /\ [][Shade]_vars

(* ------------------------- reading the double ------------------------ *)

\* The calls to fn the most recent operation made, in order.
CallsTo(fn) == SelectSeq(gl.calls, LAMBDA c : c.fn = fn)

\* How many calls to fn the most recent operation made.
Count(fn) == Len(CallsTo(fn))

\* Whether the most recent operation logged the line.
Logged(line) == \E i \in 1..Len(gl.console) : gl.console[i] = line

\* The image the context holds has as many samples as width*height*channels.
PixelCountMatches ==
    Len(imageBuffer[1].pixels)
        = imageBuffer[1].width * imageBuffer[1].height * imageBuffer[1].channels

\* The most recent operation was a loadImage.
Loaded == lastOp = "loadImage"

\* The most recent operation was a draw.
Drew == lastOp = "draw"

(* ------------------------------- claims ------------------------------- *)

\* C1 (as claimed): between construction and cleanup the textures created and
\* not yet deleted never number more than 1, and number exactly 1 after each
\* loadImage call, whatever mix of valid and rejected images is loaded.
C1_OneTextureResident ==
    (phase = "ready" /\ cleanups = 0) =>
        /\ Cardinality(gl.textures) <= 1
        /\ Loaded => Cardinality(gl.textures) = 1

\* C2 (as claimed): a loadImage of an image whose pixel count does not match
\* creates no texture, uploads nothing, and leaves the texture held before the
\* call in place: still the current texture, still live.
C2_MismatchLeavesTextureAlone ==
    (Loaded /\ ~PixelCountMatches) =>
        /\ Count("createTexture") = 0
        /\ Count("texImage2D") = 0
        /\ imageTexture = before.imageTexture
        /\ before.imageTexture # Null => before.imageTexture \in gl.textures

\* The internal format C3 names for a channel count.
C3_Format ==
    CASE imageBuffer[1].channels = 1 -> "R32F"
      [] imageBuffer[1].channels = 3 -> "RGB32F"
      [] imageBuffer[1].channels = 4 -> "RGBA32F"

\* C3: loadImage of an image with a matching pixel count and 1, 3 or 4
\* channels issues exactly one texImage2D, with the internal format of the
\* channel count (1 -> R32F, 3 -> RGB32F, 4 -> RGBA32F) and the image's width
\* and height; a draw that follows issues no texImage2D; neither call throws
\* (the context stays usable).
C3_OneUploadWithChannelFormat ==
    (imageBuffer # <<>> /\ PixelCountMatches /\ imageBuffer[1].channels \in {1, 3, 4}) =>
        /\ Loaded =>
             /\ Count("texImage2D") = 1
             /\ CallsTo("texImage2D")[1].args[3] = C3_Format
             /\ CallsTo("texImage2D")[1].args[4] = imageBuffer[1].width
             /\ CallsTo("texImage2D")[1].args[5] = imageBuffer[1].height
             /\ phase = "ready"
        /\ Drew => Count("texImage2D") = 0 /\ phase = "ready"

\* C3's case: a draw of a three-channel image that loadImage accepted.
C3_Witness ==
    /\ Drew
    /\ imageTexture # Null
    /\ imageBuffer[1].channels = 3
    /\ Count("drawArrays") = 1

\* C4 (as claimed): loadImage of an image whose channel count is not 1, 3 or 4
\* logs the unsupported channel count, uploads nothing and leaves the context
\* with no current texture.
C4_UnsupportedChannelsLogged ==
    (Loaded /\ imageBuffer[1].channels \notin {1, 3, 4}) =>
        /\ Logged(<<"unsupported number of channels: ", imageBuffer[1].channels>>)
        /\ Count("texImage2D") = 0
        /\ imageTexture = Null
        /\ phase = "ready"

\* C4 (amended): loadImage of an image whose channel count is not 1, 3 or 4
\* uploads nothing and leaves the context with no current texture; it logs the
\* unsupported channel count when the pixel count matches, and otherwise logs
\* the invalid pixel count and not the channel count.
C4_UnsupportedChannelsRejected ==
    (Loaded /\ imageBuffer[1].channels \notin {1, 3, 4}) =>
        /\ Count("texImage2D") = 0
        /\ imageTexture = Null
        /\ phase = "ready"
        /\ Len(gl.console) = 1
        /\ IF PixelCountMatches
           THEN gl.console[1] = <<"unsupported number of channels: ", imageBuffer[1].channels>>
           ELSE gl.console[1][1] = "Invalid pixel count "

\* C4's case: a two-channel image whose pixel count does not match was
\* loaded, after a load that had installed a texture.
C4_Witness ==
    /\ Loaded
    /\ imageBuffer[1].channels = 2
    /\ ~PixelCountMatches
    /\ before.imageTexture # Null
    /\ Logged(<<"Invalid pixel count ", 3, " for ", 1, "x", 1, "x", 2, " image">>)

NoGlError == \A i \in 1..Len(gl.calls) : gl.calls[i].fn = "getError" => ~gl.calls[i].ret

\* C6, the part that holds as claimed: a loadImage rejected for invalid input
\* leaves the context with no texture, the texture held before deleted; every
\* draw while the rejected image is held clears the canvas and issues no
\* drawArrays; every draw with a texture installed renders it; nothing throws.
C6_Contained ==
    /\ (Loaded /\ Rejected(imageBuffer[1])) =>
          /\ imageTexture = Null
          /\ before.imageTexture # Null => before.imageTexture \notin gl.textures
          /\ phase = "ready"
    /\ (Drew /\ imageBuffer # <<>> /\ Rejected(imageBuffer[1])) =>
          /\ imageTexture = Null
          /\ Count("clear") = 1
          /\ Count("drawArrays") = 0
          /\ phase = "ready"
    /\ (Drew /\ imageTexture # Null) =>
          /\ imageTexture \in gl.textures
          /\ Count("bindTexture") = 1
          /\ CallsTo("bindTexture")[1].args[2] = imageTexture
          /\ Count("drawArrays") = 1

C7_DrawWithoutTextureClears ==
    (Drew /\ (imageTexture = Null \/ imageBuffer = <<>>)) =>
        /\ \E i \in 1..Len(gl.calls) - 1 :
              /\ gl.calls[i].fn = "clearColor"
              /\ gl.calls[i].args = <<0, 0, 0, 1>>
              /\ gl.calls[i + 1].fn = "clear"
              /\ gl.calls[i + 1].args = <<"COLOR_BUFFER_BIT">>
        /\ Count("clearColor") = 1
        /\ Count("clear") = 1
        /\ Count("uniform2f") = 0
        /\ Count("drawArrays") = 0
        /\ phase = "ready"

\* C7's case: a draw after a rejected loadImage.
C7_Witness ==
    /\ Drew
    /\ imageTexture = Null
    /\ imageBuffer # <<>>
    /\ Rejected(imageBuffer[1])
    /\ Count("clear") = 1

\* C8: a cleanup call issues a deleteTexture, of the current texture, exactly
\* when one is held, one deleteProgram for every program of the shader program
\* set, and one deleteBuffer, of the quad buffer; when no image was ever
\* loaded it issues no deleteTexture; it does not throw.
C8_CleanupDeletes ==
    (lastOp = "cleanup") =>
        /\ IF imageTexture # Null
           THEN Count("deleteTexture") = 1 /\ CallsTo("deleteTexture")[1].args = <<imageTexture>>
           ELSE Count("deleteTexture") = 0
        /\ gl.created.texture = 0 => Count("deleteTexture") = 0
        /\ Count("deleteProgram") = Cardinality(DOMAIN shaderPrograms)
        /\ \A name \in DOMAIN shaderPrograms :
              \E i \in 1..Count("deleteProgram") :
                  CallsTo("deleteProgram")[i].args = <<shaderPrograms[name]>>
        /\ Count("deleteBuffer") = 1
        /\ CallsTo("deleteBuffer")[1].args = <<quadBuffer>>
        /\ phase = "ready"

\* C8's case: the first cleanup of a context that holds a texture.
C8_Witness ==
    /\ lastOp = "cleanup"
    /\ cleanups = 1
    /\ imageTexture # Null
    /\ Count("deleteTexture") = 1
    /\ gl.textures = {} /\ gl.programs = {} /\ gl.buffers = {}

\* The delete calls of the double.
DeleteCalls == {"deleteTexture", "deleteProgram", "deleteBuffer", "deleteShader"}

\* C9 (as claimed): a second cleanup issues no delete call for an object that
\* is already deleted.
C9_SecondCleanupDeletesNothingAgain ==
    (lastOp = "cleanup" /\ cleanups >= 2) =>
        \A i \in 1..Len(gl.calls) : gl.calls[i].fn \in DeleteCalls => gl.calls[i].ret

\* The initialization steps C10 names.
C10_Steps == {"createBuffer", "bufferData", "compileShader", "createProgram", "linkProgram"}

\* The error queue is polled after call i and before the next step.
C10_PolledAfter(i) ==
    \E j \in (i + 1)..Len(gl.calls) :
        /\ gl.calls[j].fn = "getError"
        /\ \A k \in (i + 1)..(j - 1) : gl.calls[k].fn \notin C10_Steps

\* Step i's own result is good: the object is not null, the status is true.
C10_ResultGood(i) ==
    CASE gl.calls[i].fn \in {"createBuffer", "createProgram"} -> gl.calls[i].ret # Null
      [] gl.calls[i].fn \in {"compileShader", "linkProgram"}  -> gl.calls[i + 1].ret
      [] OTHER -> TRUE

\* C10, the part that holds as claimed: construction throws whenever the
\* context produces a fault at any step; an error found by a poll is logged
\* and construction throws; with no fault construction completes with one
\* quad buffer and one program, named "default".
C10_FailsOnAnyFault ==
    (lastOp = "construct") =>
        /\ faults # {} => phase = "failed"
        /\ \A i \in 1..Len(gl.calls) :
              (gl.calls[i].fn = "getError" /\ gl.calls[i].ret) =>
                  Logged(<<"WebGL Error">>) /\ phase = "failed"
        /\ faults = {} =>
              /\ phase = "ready"
              /\ gl.buffers = {quadBuffer}
              /\ DOMAIN shaderPrograms = {"default"}
              /\ gl.programs = {shaderPrograms["default"]}
              /\ gl.errors = 0

C11_FailedConstructionReleasesAll ==
    (lastOp = "construct" /\ phase = "failed") =>
        gl.buffers = {} /\ gl.shaders = {} /\ gl.programs = {}

\* C16 (as claimed): after cleanup no GPU object created since construction
\* remains undeleted: no buffer, no program, no shader object, no texture.
C16_CleanupLeavesNothing ==
    (lastOp = "cleanup") =>
        gl.buffers = {} /\ gl.programs = {} /\ gl.shaders = {} /\ gl.textures = {}

\* The calls of the double that create or delete a GPU object, or write one.
C12_ObjectCalls ==
    {"createBuffer", "createShader", "createProgram", "createTexture",
     "deleteBuffer", "deleteShader", "deleteProgram", "deleteTexture",
     "bufferData", "texImage2D"}

\* C12: a draw call, with or without a texture loaded, leaves the current
\* texture, the image record, the quad buffer and the shader program set
\* unchanged, creates and deletes no GPU object, and a draw that follows a
\* draw with the drawing buffer unchanged issues the same GL call sequence.
C12_DrawLeavesStateAlone ==
    [][lastOp' = "draw" =>
          /\ imageTexture' = imageTexture
          /\ imageBuffer' = imageBuffer
          /\ quadBuffer' = quadBuffer
          /\ shaderPrograms' = shaderPrograms
          /\ gl'.buffers = gl.buffers /\ gl'.shaders = gl.shaders
          /\ gl'.programs = gl.programs /\ gl'.textures = gl.textures
          /\ gl'.created = gl.created
          /\ \A i \in 1..Len(gl'.calls) : gl'.calls[i].fn \notin C12_ObjectCalls
          /\ lastOp = "draw" => gl'.calls = gl.calls]_vars

\* C12's case: a draw that rendered the texture held and raised a GL error;
\* the texture is still the one live texture.
C12_Witness ==
    /\ Drew
    /\ imageTexture # Null
    /\ gl.textures = {imageTexture}
    /\ Count("drawArrays") = 1
    /\ gl.errors = 1

\* C13: every draw sets the viewport to the drawing buffer's size at the time
\* of the call, and the uTexScale it passes is in the ratio sx : sy of that
\* size to the image's size, whatever resizes and draws came before.
C13_DrawReadsCurrentSize ==
    Drew =>
        /\ Count("viewport") = 1
        /\ CallsTo("viewport")[1].args = <<0, 0, gl.drawingBufferWidth, gl.drawingBufferHeight>>
        /\ Count("drawArrays") = 1 =>
              LET scale == CallsTo("uniform2f")[1].args
                  sx == Num(gl.drawingBufferWidth, imageBuffer[1].width)
                  sy == Num(gl.drawingBufferHeight, imageBuffer[1].height)
              IN  NumEq(Mul(scale[2], sy), Mul(scale[3], sx))

\* C13's case: a draw of the texture held into a drawing buffer that was
\* resized, away from the canvas's default size, to 2 x 2.
C13_Witness ==
    /\ Drew
    /\ imageTexture # Null
    /\ <<gl.drawingBufferWidth, gl.drawingBufferHeight>> = <<2, 2>>
    /\ <<2, 2>> # CanvasDefault
    /\ CallsTo("viewport")[1].args = <<0, 0, 2, 2>>
    /\ Count("drawArrays") = 1

\* The two ends, on one axis of the viewport (0 to 1), of the region that the
\* fragment shader maps to texture coordinates inside [0, 1]: the points that
\* it maps to 0 and to 1.
C17_Region(center, scale) ==
    <<Sub(center, Div(Num(1, 2), scale)), Add(center, Div(Num(1, 2), scale))>>

\* On one axis, the fragment shader maps the ends of the region to 0 and 1,
\* the region lies inside the viewport, and of the sampled points of the
\* viewport exactly those of the region are mapped inside the texture.
C17_RegionFits(center, scale) ==
    LET region == C17_Region(center, scale)
    IN  /\ NumEq(texCoord(region[1], center, scale), Num(0, 1))
        /\ NumEq(texCoord(region[2], center, scale), Num(1, 1))
        /\ ~Lt(region[1], Num(0, 1)) /\ ~Gt(region[2], Num(1, 1))
        /\ \A k \in 0..MaxGrid :
              InTexture(texCoord(Num(k, MaxGrid), center, scale))
                  <=> (~Lt(Num(k, MaxGrid), region[1]) /\ ~Gt(Num(k, MaxGrid), region[2]))

\* On one axis, the region is the whole viewport.
C17_Spans(center, scale) ==
    /\ NumEq(C17_Region(center, scale)[1], Num(0, 1))
    /\ NumEq(C17_Region(center, scale)[2], Num(1, 1))

\* The length in pixels of the region on an axis of v pixels.
C17_Length(center, scale, v) ==
    Mul(Sub(C17_Region(center, scale)[2], C17_Region(center, scale)[1]), Num(v, 1))

C20_UploadedFromImage ==
    (Loaded /\ imageTexture # Null) =>
        /\ imageBuffer # <<>>
        /\ imageTexture \in gl.textures
        /\ Count("createTexture") = 1
        /\ CallsTo("createTexture")[1].ret = imageTexture
        /\ Count("texImage2D") = 1
        /\ \E i \in 1..Len(gl.calls) : \E j \in (i + 1)..Len(gl.calls) :
              /\ gl.calls[i].fn = "bindTexture"
              /\ gl.calls[i].args = <<"TEXTURE_2D", imageTexture>>
              /\ \A k \in (i + 1)..(j - 1) : gl.calls[k].fn # "bindTexture"
              /\ gl.calls[j].fn = "texImage2D"
              /\ gl.calls[j].args[4] = imageBuffer[1].width
              /\ gl.calls[j].args[5] = imageBuffer[1].height
              /\ Len(gl.calls[j].args[9]) = Len(imageBuffer[1].pixels)

\* A draw that reaches drawArrays selects texture unit 0, binds the texture
\* held, which is live, and passes a uTexScale in the ratio of the drawing
\* buffer's size to the size of the image record.
C20_DrawBindsHeld ==
    (Drew /\ Count("drawArrays") = 1) =>
        /\ imageTexture # Null
        /\ imageTexture \in gl.textures
        /\ imageBuffer # <<>>
        /\ Count("bindTexture") = 1
        /\ \E i \in 1..(Len(gl.calls) - 1) :
              /\ gl.calls[i].fn = "activeTexture"
              /\ gl.calls[i].args = <<"TEXTURE0">>
              /\ gl.calls[i + 1].fn = "bindTexture"
              /\ gl.calls[i + 1].args = <<"TEXTURE_2D", imageTexture>>
        /\ NumEq(Mul(CallsTo("uniform2f")[1].args[2],
                     Num(gl.drawingBufferHeight, imageBuffer[1].height)),
                 Mul(CallsTo("uniform2f")[1].args[3],
                     Num(gl.drawingBufferWidth, imageBuffer[1].width)))

\* A step changes the texture held or the image record only if it is a
\* loadImage, and before cleanup a texture that stays held stays live.
C20_PairKept ==
    /\ (imageTexture' # imageTexture \/ imageBuffer' # imageBuffer) => lastOp' = "loadImage"
    /\ (imageTexture' = imageTexture /\ imageTexture \in gl.textures /\ cleanups' = 0)
          => imageTexture' \in gl'.textures

\* C20: whenever the context holds a texture, the image record is the image
\* the texture was uploaded from: the most recent loadImage that returned a
\* texture created it and uploaded the image record to it, no other operation
\* changes either, and every draw that reaches drawArrays binds that texture,
\* live, to unit 0 and scales by that image's width and height.
C20_TextureIsOfImage ==
    /\ [](C20_UploadedFromImage /\ C20_DrawBindsHeld)
    /\ [][C20_PairKept]_vars

\* C20's case: a draw that rendered the texture of a second accepted image;
\* the first image's texture is deleted.
C20_Witness ==
    /\ Drew
    /\ Count("drawArrays") = 1
    /\ imageTexture = 2
    /\ gl.textures = {2}
    /\ CallsTo("bindTexture")[1].args = <<"TEXTURE_2D", 2>>

(* ------------------- claims about the ImageDisplay component ------------------- *)

\* C14: over every sequence of mount, resize notification, image change and
\* destroy, cleanup is invoked at most once on the DrawContext, nothing is
\* invoked on it after cleanup in the same handler, and no later handler
\* invokes draw or loadImage (or anything else) on it.
C14_WellBehavedCaller ==
    /\ cleanups <= 1
    /\ \A i \in 1..Len(component.methods) :
          component.methods[i] = "cleanup" => i = Len(component.methods)
    /\ (cleanups = 1 /\ lastOp # "onDestroy") => component.methods = <<>>

\* C14's case: the component was destroyed while it held a texture and was
\* owed a resize notification (the canvas is displayed at another size than
\* its backing size); onDestroy invoked cleanup, once.
C14_Witness ==
    /\ component.file = "routes"
    /\ component.stage = "destroyed"
    /\ lastOp = "onDestroy"
    /\ component.methods = <<"cleanup">>
    /\ cleanups = 1
    /\ imageTexture # Null
    /\ component.offsetWidth # gl.drawingBufferWidth
    /\ ~component.observing

\* C15 (as claimed): when the WebGL2 context or the extension is unavailable
\* at mount, the user is alerted, no DrawContext is constructed, no GPU object
\* is allocated, and every later event completes without raising and without
\* a DrawContext call.
C15_AbortedSetupStaysQuiet ==
    (component.stage # "created" /\ component.support # "ok") =>
        /\ ~component.drawContext
        /\ phase = "new"
        /\ gl.created = [buffer |-> 0, shader |-> 0, program |-> 0, texture |-> 0]
        /\ gl.calls = <<>>
        /\ component.methods = <<>>
        /\ lastOp = "onMount" => component.alert # <<>>
        /\ ~component.raised

\* C19: given that setup succeeded, whenever the component is mounted and an
\* image is available the DrawContext has been given that image; the handler
\* that assigns the image invokes loadImage then draw; a mount that finds the
\* image already there invokes loadImage then draw after its own draws; and
\* every loadImage is followed at once by a draw.
C19_ImageReachesContext ==
    (component.file = "routes" /\ component.drawContext /\ component.stage = "mounted") =>
        /\ component.imageBuffer # <<>> => imageBuffer = component.imageBuffer
        /\ \A i \in 1..Len(component.methods) :
              component.methods[i] = "loadImage" =>
                  i < Len(component.methods) /\ component.methods[i + 1] = "draw"
        /\ lastOp = "imageChange" => component.methods = <<"loadImage", "draw">>
        /\ (lastOp = "onMount" /\ component.imageBuffer # <<>>) =>
              component.methods = <<"new", "draw", "draw", "loadImage", "draw">>
        /\ (lastOp = "onMount" /\ component.imageBuffer = <<>>) =>
              component.methods = <<"new", "draw", "draw">>

\* C19's case: the image was available before the mount; the mount loaded it
\* and a texture is installed.
C19_Witness ==
    /\ lastOp = "onMount"
    /\ component.drawContext
    /\ component.imageBuffer # <<>>
    /\ component.methods = <<"new", "draw", "draw", "loadImage", "draw">>
    /\ imageTexture # Null
    /\ Count("drawArrays") = 1

\* The canvas's backing size is the size at which it is displayed.
C18_BackingIsDisplayed ==
    /\ gl.drawingBufferWidth = component.offsetWidth
    /\ gl.drawingBufferHeight = component.offsetHeight

\* C18 (as claimed): in the ImageDisplay component every change of the
\* canvas's displayed size is followed by a resize notification that runs
\* resizeCanvas: whenever the mounted canvas is displayed at another size than
\* its backing size, an observer observes it and owes it a notification.
C18_EveryResizeIsNotified ==
    (component.file = "routes" /\ component.stage = "mounted" /\ ~C18_BackingIsDisplayed) =>
        component.observing /\ component.notify

\* While the observer observes the canvas, a displayed size other than the
\* backing size means a notification is owed.
C18_Owed ==
    (component.observing /\ ~C18_BackingIsDisplayed) => component.notify

\* While the observer observes the canvas and owes it nothing, the backing
\* size is the displayed size and the most recent handler, resizeCanvas or an
\* image change, drew last with the viewport of the displayed size.
C18_Synced ==
    (component.observing /\ ~component.notify) =>
        /\ C18_BackingIsDisplayed
        /\ lastOp \in {"resizeCanvas", "imageChange"}
        /\ component.methods # <<>>
        /\ component.methods[Len(component.methods)] = "draw"
        /\ Count("viewport") = 1
        /\ CallsTo("viewport")[1].args = <<0, 0, component.offsetWidth, component.offsetHeight>>

\* C18 (amended): once setup has succeeded and until the component is
\* destroyed, every change of the displayed size is owed a notification,
\* which eventually runs resizeCanvas unless the component is destroyed
\* first; resizeCanvas sets the backing size to the displayed size before it
\* draws, so whenever no notification is owed the most recent draw was made
\* with the backing size equal to the displayed size.
C18_ObservedResizeReachesDraw ==
    /\ [](C18_Owed /\ C18_Synced)
    /\ component.notify ~>
          (~component.notify /\ (component.stage = "destroyed" \/ C18_BackingIsDisplayed))

\* C18's case: a notification was delivered after the displayed size changed
\* to 1 x 2; resizeCanvas drew the texture held with that viewport.
C18_Witness ==
    /\ lastOp = "resizeCanvas"
    /\ component.methods = <<"draw">>
    /\ imageTexture # Null
    /\ <<component.offsetWidth, component.offsetHeight>> = <<1, 2>>
    /\ CallsTo("viewport")[1].args = <<0, 0, 1, 2>>
    /\ Count("drawArrays") = 1

\* The calls that create a buffer or write a buffer's data.
C21_BufferWrites == {"createBuffer", "bufferData", "bufferSubData"}

\* C21: the quad buffer is created and populated exactly once, during
\* construction, with the 4 fixed vertices (4 numbers each: position and
\* texture coordinate); no loadImage or draw creates another buffer or writes
\* buffer data; and the buffer is deleted only by cleanup.
C21_QuadBufferOnce ==
    /\ gl.created.buffer <= 1
    /\ phase = "ready" =>
          /\ gl.created.buffer = 1
          /\ quadBuffer = 1
          /\ cleanups = 0 => gl.buffers = {quadBuffer}
    /\ (lastOp = "construct" /\ phase = "ready") =>
          /\ Count("createBuffer") = 1
          /\ CallsTo("createBuffer")[1].ret = quadBuffer
          /\ Count("bufferData") = 1
          /\ CallsTo("bufferData")[1].args =
                 <<"ARRAY_BUFFER",
                   <<1, 1, 1, 0,  -1, 1, 0, 0,  1, -1, 1, 1,  -1, -1, 0, 1>>,
                   "STATIC_DRAW">>
          /\ Len(CallsTo("bufferData")[1].args[2]) = 4 * 4
    /\ lastOp # "construct" =>
          \A i \in 1..Len(gl.calls) : gl.calls[i].fn \notin C21_BufferWrites
    /\ lastOp # "cleanup" => Count("deleteBuffer") = 0
    /\ lastOp = "cleanup" =>
          /\ Count("deleteBuffer") = 1
          /\ CallsTo("deleteBuffer")[1].args = <<quadBuffer>>

\* C21's case: after as many loads as the bound allows, cleanup deleted the
\* one buffer the context ever created, which was live until then.
C21_Witness ==
    /\ lastOp = "cleanup"
    /\ cleanups = 1
    /\ gl.created.texture = MaxLoads
    /\ gl.created.buffer = 1
    /\ CallsTo("deleteBuffer")[1].ret
    /\ gl.buffers = {}

\* The objects the left pane's DrawContext holds are live in the left
\* canvas's context, and are all the buffers and programs live there.
C22_LeftHoldsItsOwn ==
    (phase = "ready" /\ cleanups = 0) =>
        /\ gl.buffers = {quadBuffer}
        /\ gl.programs = {shaderPrograms["default"]}
        /\ imageTexture # Null => imageTexture \in gl.textures

\* The same for the right pane and the right canvas's context.
C22_RightHoldsItsOwn ==
    (right.phase = "ready" /\ right.cleanups = 0) =>
        /\ right.gl.buffers = {right.quadBuffer}
        /\ right.gl.programs = {right.shaderPrograms["default"]}
        /\ right.imageTexture # Null => right.imageTexture \in right.gl.textures

\* A step taken by one pane leaves the other pane's DrawContext (texture,
\* image record, quad buffer, programs) and the other canvas's GL context,
\* with its objects, its bindings and its log of calls, as they were.
C22_Frame ==
    /\ right'.acted = "left" => right' = [right EXCEPT !.acted = "left"]
    /\ right'.acted = "right" =>
          UNCHANGED <<gl, phase, quadBuffer, shaderPrograms, imageBuffer, imageTexture, cleanups>>

\* C22: the two panes' DrawContexts share no GPU resource: under any
\* interleaving of construct, loadImage, draw and cleanup on the two, an
\* operation on one creates, deletes or binds objects of its own context only
\* and leaves the other's texture, image record, quad buffer and programs
\* unchanged, so that each pane's objects stay live until its own cleanup.
C22_PanesShareNothing ==
    /\ [](C22_LeftHoldsItsOwn /\ C22_RightHoldsItsOwn)
    /\ [][C22_Frame]_vars

\* C22's case: both panes loaded an image, each into the first texture of
\* its own context (the same name in both); the left pane was cleaned up and
\* the right pane's texture, buffer and program are still live.
C22_Witness ==
    /\ lastOp = "cleanup"
    /\ right.acted = "left"
    /\ cleanups = 1
    /\ gl.textures = {} /\ gl.buffers = {}
    /\ right.phase = "ready" /\ right.cleanups = 0
    /\ right.imageTexture # Null
    /\ right.imageTexture = imageTexture
    /\ right.imageTexture \in right.gl.textures
    /\ right.gl.buffers = {right.quadBuffer}

\* The float buffer the most recent loadImage handed to texImage2D.
C23_TextureBuffer == CallsTo("texImage2D")[1].args[9]

\* C23 (as claimed): loadImage uploads a float buffer of the same length as
\* the input in which every element equals the corresponding input sample
\* unchanged, for samples of every supported type, 32-bit unsigned included.
C23_UploadedVerbatim ==
    (Loaded /\ Count("texImage2D") = 1) =>
        /\ Len(C23_TextureBuffer) = Len(imageBuffer[1].pixels)
        /\ \A i \in 1..Len(C23_TextureBuffer) :
              C23_TextureBuffer[i] = imageBuffer[1].pixels[i]

\* ((c - center) * scale) + center on one axis, as one fraction.
C24_Mapped(c, center, scale) ==
    Num((c.n * center.d - center.n * c.d) * scale.n * center.d
            + center.n * (c.d * center.d * scale.d),
        c.d * center.d * scale.d * center.d)

\* A coordinate outside [0, 1] (the denominator is positive).
C24_Outside(t) == t.n < 0 \/ t.n > t.d

\* C24: the default fragment stage maps each interpolated coordinate c to
\* ((c - uTexCenter) * uTexScale) + uTexCenter; if the result is outside
\* [0, 1] on either axis the output is (0, 0, 0, 0), otherwise the output
\* colour is the sampled channels divided by 255 with alpha exactly 1.
C24_FragmentColour ==
    fragment.stage = "shaded" =>
        LET s == C24_Mapped(fragment.vTextureCoordinate[1], fragment.uTexCenter[1],
                            fragment.uTexScale[1])
            t == C24_Mapped(fragment.vTextureCoordinate[2], fragment.uTexCenter[2],
                            fragment.uTexScale[2])
            sampled == texture(fragment.uSampler, s, t)
        IN  IF C24_Outside(s) \/ C24_Outside(t)
            THEN \A k \in 1..4 : fragment.fragColor[k].n = 0
            ELSE /\ \A k \in 1..3 :
                      fragment.fragColor[k].n * 255 = sampled[k] * fragment.fragColor[k].d
                 /\ fragment.fragColor[4].n = fragment.fragColor[4].d

\* C24's case: the fragment at the right edge, half way up, of a quad drawn
\* with uTexScale (1, 2) around the middle of a 2 x 1 texture: it maps to
\* (1, 1/2), inside the texture, and takes the second texel, whose red sample
\* 65535 gives 257 and whose blue sample 255 gives 1, with alpha 1.
C24_Witness ==
    /\ fragment.stage = "shaded"
    /\ fragment.uSampler.width = 2
    /\ fragment.uTexCenter = <<Num(1, 2), Num(1, 2)>>
    /\ fragment.uTexScale = <<Num(1, 1), Num(2, 1)>>
    /\ NumEq(fragment.vTextureCoordinate[1], Num(1, 1))
    /\ NumEq(fragment.vTextureCoordinate[2], Num(1, 2))
    /\ NumEq(fragment.fragColor[1], Num(257, 1))
    /\ NumEq(fragment.fragColor[2], Num(0, 1))
    /\ NumEq(fragment.fragColor[3], Num(1, 1))
    /\ NumEq(fragment.fragColor[4], Num(1, 1))

====
